---- MODULE Spec2Model ----
(***************************************************************************)
(* Retrieval pipeline of the EdTech tutor agent: RAGPipeline.retrieve with *)
(* its merge step (_deduplicate_results), QdrantManager.search under its  *)
(* tenacity retry policy, and ContextualizedCompressor.compress_documents. *)
(***************************************************************************)
EXTENDS Integers, Sequences, FiniteSets, TLC

\* ------------------------------------------------------------------ bounds
NumPoints == 3          \* ids of the points held by the vector index: 1..NumPoints
MaxScore == 2           \* similarity scores are drawn from 1..MaxScore
MaxResults == 3         \* longest hit list handed to the merge step on its own
MaxDocs == 3            \* longest document list handed to the compressor on its own
MaxVariations == 2      \* generated query variants per retrieve (num_variations)
MaxLines == 3           \* lines in one response of the query-expansion call
MaxBatch == 3           \* longest list handed to embed_documents on its own
MaxCalls == 3           \* embedding-service calls in one run of the embeddings manager
TopK == 2               \* hits the index returns per search (limit)

\* ------------------------------------------------------- program constants
qdrant_retry_attempts == 3

\* ------------------------------------------------------------------- texts
\* A Python str, as far as the pipeline looks at it: what is left after
\* strip() (core, n characters) and the number of surrounding whitespace
\* characters (ws).  len(t) = n + ws.
T(core, n, ws) == [core |-> core, n |-> n, ws |-> ws]

StrLen(t) == t.n + t.ws

Strip(t) == [t EXCEPT !.ws = 0]

IsBlank(t) == Strip(t).n = 0

EmptyText == T("", 0, 0)

NOT_RELEVANT == T("NOT_RELEVANT", 12, 0)

\* page contents a stored chunk may have
DocTexts ==
    { T("A", 1600, 0), T("B", 8, 1), NOT_RELEVANT, EmptyText }

\* raw texts the text-generation service may answer a compression call with
LLMTexts ==
    { T("NOT_RELEVANT", 12, 2), T("x", 1600, 0), T("y", 4, 1) }

\* outcomes of one llm_provider.generate call made for compression
LLMResponses ==
    { [ok |-> TRUE, text |-> t] : t \in LLMTexts }
        \cup { [ok |-> FALSE, text |-> EmptyText] }

\* budgets (max_context_length) a compressor may be constructed with
Budgets == {2, 1000}

\* -------------------------------------------------------------- the index
Ids == 1..NumPoints

Scores == 1..MaxScore

\* payload of a stored point; keys names which of the keys "id" and "score"
\* the payload holds (the values of the others are not looked at)
PayloadOf(id) ==
    CASE id = 1 -> [page_content |-> T("B", 8, 1), text |-> EmptyText,
                    topic |-> "a", keys |-> {}, id |-> "", score |-> 0]
      [] id = 2 -> [page_content |-> EmptyText, text |-> T("A", 1600, 0),
                    topic |-> "b", keys |-> {"id", "score"},
                    id |-> "chunk-7", score |-> 0]
      [] OTHER  -> [page_content |-> NOT_RELEVANT, text |-> EmptyText,
                    topic |-> "c", keys |-> {}, id |-> "", score |-> 0]

\* models.ScoredPoint
Hit(id, score) == [id |-> id, score |-> score, payload |-> PayloadOf(id)]

Hits == { Hit(i, s) : i \in Ids, s \in Scores }

SeqsUpTo(S, n) == UNION { [1..k -> S] : k \in 0..n }

Front(s) == SubSeq(s, 1, Len(s) - 1)

Last(s) == s[Len(s)]

\* ------------------------------------------------------------------- state
VARIABLES
    pc,                 \* position inside retrieve
    query,              \* retrieve's query argument
    enable_multi_query, \* retrieve's enable_multi_query argument
    enable_compression, \* RAGPipeline.enable_compression
    max_context_length, \* ContextualizedCompressor.max_context_length
    coll_exists,        \* whether the index holds the pipeline's collection
    metadata_filter,    \* retrieve's metadata_filter argument
    score_threshold,    \* the score_threshold argument of RAGPipeline.__init__
    expand_calls,       \* llm_provider.generate calls made by generate_queries
    expand_response,    \* what that call answered (generate_queries on its own)
    queries,            \* query variants
    query_embeddings,   \* one vector per variant
    embed_status,       \* how embed_documents ended
    vi,                 \* index of the variant being searched
    attempt_number,     \* tenacity attempt of the running search call
    exists_calls,       \* get_collections calls of the running search call
    index_calls,        \* client.search calls of the running search call
    search_log,         \* one record per finished search call
    all_results,        \* hits collected from all variants
    unique_docs,        \* output of _deduplicate_results
    documents,          \* retrieve's local list of documents
    c_documents,        \* the documents argument of compress_documents
    c_i,                \* index of the document the compressor looks at next
    total_tokens,       \* compressor's running token total
    compressed_docs,    \* compressor's output list
    llm_log,            \* per input document: what its compression call did
    c_outcome,          \* how compress_documents ended
    outcome,            \* how retrieve ended
    cache,              \* EmbeddingsManager._cache
    stored,             \* per text: the vector a successful caching call left
    prev_op,            \* kind of the operation before the current one
    e_op,               \* the embeddings operation running or just finished
    e_pc,               \* its position
    e_attempt,          \* its tenacity attempt
    e_locals,           \* embeddings, texts_to_embed, text_indices
    e_cache_before,     \* the cache as the current attempt found it
    e_calls,            \* embedding-service calls of the operation
    e_gen,              \* embedding-service calls answered so far
    e_result,           \* what the operation returned or raised
    cache_writes,       \* per key: writes to _cache since it was last empty
    bg,                 \* a second embed_query coroutine on the same manager
    now,                \* time.time(), in whole seconds
    redis_enabled,      \* RateLimiter._enabled
    redis_healthy,      \* whether Redis commands succeed
    requests_zset,      \* the sorted set rate_limit:requests:{user_id}
    requests_ttl,       \* the time that key expires at
    tokens_zset,        \* the sorted set rate_limit:tokens:{user_id}
    tokens_ttl,         \* the time that key expires at
    limiter_log         \* one record per finished rate-limiter check

vars == << pc, query, enable_multi_query, enable_compression,
           max_context_length, coll_exists, metadata_filter, score_threshold,
           expand_calls,
           expand_response, queries, query_embeddings,
           embed_status, vi, attempt_number, exists_calls, index_calls, search_log,
           all_results, unique_docs, documents, c_documents, c_i,
           total_tokens, compressed_docs, llm_log, c_outcome, outcome,
           cache, stored, prev_op, e_op, e_pc, e_attempt, e_locals,
           e_cache_before, e_calls, e_gen, e_result, cache_writes, bg,
           now, redis_enabled, redis_healthy, requests_zset, requests_ttl,
           tokens_zset, tokens_ttl, limiter_log >>

embedVars == << cache, stored, prev_op, e_op, e_pc, e_attempt, e_locals,
               e_cache_before, e_calls, e_gen, e_result, cache_writes, bg >>

limiterVars == << now, redis_enabled, redis_healthy, requests_zset,
                 requests_ttl, tokens_zset, tokens_ttl, limiter_log >>

searchVars == << vi, attempt_number, exists_calls, index_calls, search_log >>

compressVars == << c_documents, c_i, total_tokens, compressed_docs, llm_log,
                  c_outcome >>

argVars == << query, enable_multi_query, enable_compression,
              max_context_length, coll_exists, metadata_filter,
              score_threshold >>

expandVars == << expand_calls, expand_response >>

QueryTexts == { T("q", 5, 0), T("", 0, 2) }

COLLECTION == "courses"

\* details dict of an exception; "" and -1 stand for keys that are not set
Details(q, collection, limit) ==
    [query |-> q, collection |-> collection, limit |-> limit]

NoDetails == Details(EmptyText, "", -1)

\* an exception: its class, the class of the exception it was raised from,
\* and its details
Exc(type, cause, details) == [type |-> type, cause |-> cause, details |-> details]

NoOutcome ==
    [type |-> "none", documents |-> << >>, details |-> NoDetails, cause |-> "none"]

\* a metadata_filter dict, as the sequence of its items; None and {} are
\* both the empty sequence (line 173)
NoMetadataFilter == << >>

MetadataFilters ==
    { NoMetadataFilter,
      << [key |-> "topic", is_list |-> FALSE, values |-> {"a"}] >>,
      << [key |-> "topic", is_list |-> TRUE, values |-> {"a", "b"}] >> }

\* an optional argument that is not given (None)
NoneArg == -1

\* settings.rag_score_threshold, on the scale of Scores
rag_score_threshold == 1

\* thresholds a pipeline may be constructed with: none, 0, the highest score
ScoreThresholdArgs == {NoneArg, 0, MaxScore}

\* Python's "value or default": None and 0 both give the default
OrDefault(value, default) ==
    IF value = NoneArg \/ value = 0 THEN default ELSE value

\* no expansion call has been made
NoResponse == [status |-> "none", lines |-> << >>]

ExpandIdle ==
    /\ expand_calls = 0
    /\ expand_response = NoResponse

\* ------------------------------------------------- the embeddings manager
\* texts handed to the embeddings manager: two texts and a blank one
EmbedTexts == { T("a", 1, 0), T("b", 1, 0), T("", 0, 1) }

\* the vector the embedding service computed for a text in its gen-th call:
\* within one call the service gives equal texts equal vectors
Vec(text, gen) == [text |-> text, gen |-> gen]

NoVec == Vec(EmptyText, -1)

\* _get_cache_key: the md5 digest of the text, one key per text
CacheKey(text) == << "md5", text.core, text.n, text.ws >>

CacheKeys == { CacheKey(t) : t \in EmbedTexts }

\* line 26: self._cache = {}; a key that is not in the dict maps to NoVec
EmptyCache == [key \in CacheKeys |-> NoVec]

NoStored == [t \in EmbedTexts |-> NoVec]

EmbedOp(kind, texts, use_cache) ==
    [kind |-> kind, texts |-> texts, use_cache |-> use_cache]

NoEmbedOp == EmbedOp("none", << >>, FALSE)

NoLocals ==
    [embeddings |-> << >>, texts_to_embed |-> << >>, text_indices |-> << >>]

EmbedResult(status, vectors) == [status |-> status, vectors |-> vectors]

NoEmbedResult == EmbedResult("none", << >>)

NoWrites == [key \in CacheKeys |-> 0]

\* the second coroutine: where it is, its text, its tenacity attempt, the
\* service call it waits for, the vector it returned
BgCall(bg_pc, text, attempt, gen, result) ==
    [pc |-> bg_pc, text |-> text, attempt |-> attempt, gen |-> gen,
     result |-> result]

NoBg == BgCall("idle", EmptyText, 0, 0, NoEmbedResult)

\* no embeddings operation is running and none has run
EmbedIdle ==
    /\ cache = EmptyCache
    /\ stored = NoStored
    /\ prev_op = "none"
    /\ e_op = NoEmbedOp
    /\ e_pc = "idle"
    /\ e_attempt = 0
    /\ e_locals = NoLocals
    /\ e_cache_before = EmptyCache
    /\ e_calls = << >>
    /\ e_gen = 0
    /\ e_result = NoEmbedResult
    /\ cache_writes = NoWrites
    /\ bg = NoBg

\* --------------------------------------------------------- the rate limiter
\* time.time() when the run starts
StartTime == 1700000000

\* a key that does not exist has no expiry time
NoTtl == -1

\* an enabled limiter on a healthy Redis that holds no key of the user
LimiterIdle ==
    /\ now = StartTime
    /\ redis_enabled = TRUE
    /\ redis_healthy = TRUE
    /\ requests_zset = {}
    /\ requests_ttl = NoTtl
    /\ tokens_zset = {}
    /\ tokens_ttl = NoTtl
    /\ limiter_log = << >>

\* ------------------------------------------------------------------- merge
\* line 214: the condition under which a hit is stored for its id
ShouldStore_LastWins(seen, result) == TRUE

ShouldStore_FirstWins(seen, result) ==
    { k \in DOMAIN seen : ToString(seen[k].id) = ToString(result.id) } = {}

ShouldStore(seen, result) ==
    LET same == { k \in DOMAIN seen : ToString(seen[k].id) = ToString(result.id) }
    IN  \/ same = {}
        \/ \E k \in same : result.score > seen[k].score

\* seen_ids after the loop of lines 211-215, as the dict's values in
\* insertion order: an assignment to a key already present keeps its place
RECURSIVE SeenIds(_)
SeenIds(results) ==
    IF results = << >> THEN << >>
    ELSE LET prev   == SeenIds(Front(results))
             result == Last(results)
             same   == { k \in DOMAIN prev :
                           ToString(prev[k].id) = ToString(result.id) }
         IN  IF ~ShouldStore(prev, result) THEN prev
             ELSE IF same = {} THEN Append(prev, result)
             ELSE [k \in DOMAIN prev |->
                     IF k \in same THEN result ELSE prev[k]]

\* where a stable descending sort puts x among the already sorted elements
InsertDesc_Unstable(sorted, x) ==
    LET k == Cardinality({ i \in DOMAIN sorted : sorted[i].score > x.score })
    IN  SubSeq(sorted, 1, k) \o << x >> \o SubSeq(sorted, k + 1, Len(sorted))

InsertDesc(sorted, x) ==
    LET k == Cardinality({ i \in DOMAIN sorted : sorted[i].score >= x.score })
    IN  SubSeq(sorted, 1, k) \o << x >> \o SubSeq(sorted, k + 1, Len(sorted))

\* sorted(values, key=score, reverse=True): stable, equal scores keep
\* their order
RECURSIVE SortedByScoreDesc(_)
SortedByScoreDesc(values) ==
    IF values = << >> THEN << >>
    ELSE InsertDesc(SortedByScoreDesc(Front(values)), Last(values))

DeduplicateResults(results) == SortedByScoreDesc(SeenIds(results))

\* ------------------------------------------------------- the index's answers
\* similarity of a stored point to a query vector (a vector is named by the
\* text it embeds)
ScoreFor(vector, id) == ((id + vector.n) % MaxScore) + 1

\* all points of the collection, best score first
Ranking(vector) ==
    SortedByScoreDesc([id \in Ids |-> Hit(id, ScoreFor(vector, id))])

\* _build_qdrant_filter: one condition per item, MatchAny for a list and
\* MatchValue otherwise; None when there is no item
BuildQdrantFilter(mf) ==
    [none |-> mf = << >>,
     must |-> [k \in DOMAIN mf |->
                 [key |-> mf[k].key,
                  match |-> IF mf[k].is_list THEN "MatchAny" ELSE "MatchValue",
                  values |-> mf[k].values]]]

\* whether a stored point passes the filter (every condition is on "topic")
MatchesFilter(query_filter, payload) ==
    \A k \in DOMAIN query_filter.must :
        payload.topic \in query_filter.must[k].values

\* what client.search may answer: hits of the points that pass the filter
\* and reach the threshold, best first, at most limit of them
IndexAnswers(vector, limit, threshold, query_filter) ==
    LET eligible ==
            SelectSeq(Ranking(vector),
                      LAMBDA h : /\ h.score >= threshold
                                 /\ MatchesFilter(query_filter, h.payload))
    IN  { SubSeq(eligible, 1, m) :
            m \in 0..(IF limit < Len(eligible) THEN limit ELSE Len(eligible)) }

\* retrieve, step 4
Deduplicate ==
    /\ pc = "merge"
    /\ unique_docs' = DeduplicateResults(all_results)
    /\ pc' = "convert"
    /\ UNCHANGED << argVars, expandVars, embedVars, limiterVars, queries, query_embeddings, embed_status, searchVars,
                    all_results, documents, compressVars, outcome >>

\* ----------------------------------------------------- the merge step alone
InitMerge ==
    /\ pc = "merge"
    /\ query = T("q", 5, 0)
    /\ enable_multi_query = FALSE
    /\ enable_compression = FALSE
    /\ max_context_length = 1000
    /\ coll_exists = TRUE
    /\ metadata_filter = NoMetadataFilter
    /\ score_threshold = NoneArg
    /\ ExpandIdle
    /\ queries = << >>
    /\ query_embeddings = << >>
    /\ embed_status = "none"
    /\ vi = 1
    /\ attempt_number = 0
    /\ exists_calls = 0
    /\ index_calls = 0
    /\ search_log = << >>
    /\ all_results \in SeqsUpTo(Hits, MaxResults)
    /\ unique_docs = << >>
    /\ documents = << >>
    /\ c_documents = << >>
    /\ c_i = 1
    /\ total_tokens = 0
    /\ compressed_docs = << >>
    /\ llm_log = << >>
    /\ c_outcome = "none"
    /\ outcome = NoOutcome
    /\ EmbedIdle
    /\ LimiterIdle

NextMerge == Deduplicate

SpecMerge == InitMerge /\ [][NextMerge]_vars

MergeDone == pc = "convert"

IdsOf(s) == { s[k].id : k \in DOMAIN s }

MaxScoreOf(results, id) ==
    CHOOSE m \in { results[k].score : k \in { j \in DOMAIN results : results[j].id = id } } :
        \A k \in DOMAIN results : results[k].id = id => results[k].score <= m

\* position of the first hit with this id in the input
FirstSeen(results, id) ==
    CHOOSE k \in DOMAIN results :
        /\ results[k].id = id
        /\ \A j \in DOMAIN results : results[j].id = id => k <= j

\* C1: the merge output holds at most one hit per id, holds every id of the
\* input, and keeps for each id the maximum score that id has in the input.
C1_MergeUniqueMax ==
    MergeDone =>
        /\ \A i, j \in DOMAIN unique_docs :
               i # j => unique_docs[i].id # unique_docs[j].id
        /\ IdsOf(unique_docs) = IdsOf(all_results)
        /\ \A k \in DOMAIN unique_docs :
               unique_docs[k].score = MaxScoreOf(all_results, unique_docs[k].id)

\* an id that occurs twice, its greater score first and its smaller one last
C1_Witness ==
    /\ MergeDone
    /\ Len(unique_docs) >= 2
    /\ \E i, j \in DOMAIN all_results :
           /\ i < j
           /\ all_results[i].id = all_results[j].id
           /\ all_results[i].score > all_results[j].score

\* C2 (as stated): the merge output is sorted descending by score and hits
\* of equal score appear in ascending order of id.
C2_SortedTiesById ==
    MergeDone =>
        \A i, j \in DOMAIN unique_docs :
            i < j =>
                \/ unique_docs[i].score > unique_docs[j].score
                \/ /\ unique_docs[i].score = unique_docs[j].score
                   /\ unique_docs[i].id < unique_docs[j].id

\* C2 (amended): the merge output is sorted descending by score and hits of
\* equal score appear in the order in which their ids first occur in the
\* input.
C2_SortedTiesFirstSeen ==
    MergeDone =>
        \A i, j \in DOMAIN unique_docs :
            i < j =>
                \/ unique_docs[i].score > unique_docs[j].score
                \/ /\ unique_docs[i].score = unique_docs[j].score
                   /\ FirstSeen(all_results, unique_docs[i].id)
                        < FirstSeen(all_results, unique_docs[j].id)

\* two hits of equal score, the greater id first in input and output
C2_Witness ==
    /\ MergeDone
    /\ \E i, j \in DOMAIN unique_docs :
           /\ i < j
           /\ unique_docs[i].score = unique_docs[j].score
           /\ unique_docs[i].id > unique_docs[j].id

\* every order in which the hits of s can be handed to the merge step
PermutationsOf(s) ==
    { [i \in DOMAIN s |-> s[f[i]]] : f \in Permutations(DOMAIN s) }

PairsOf(s) == { << s[k].id, s[k].score >> : k \in DOMAIN s }

\* C19: the set of (id, score) pairs of the merge output is the same for
\* every permutation of the input hits.
C19_MergeOrderInsensitive ==
    MergeDone =>
        \A p \in PermutationsOf(all_results) :
            PairsOf(DeduplicateResults(p)) = PairsOf(unique_docs)

\* an id whose smaller score comes first and whose greater score comes
\* last, among hits of another id
C19_Witness ==
    /\ MergeDone
    /\ Len(all_results) >= 3
    /\ Len(unique_docs) >= 2
    /\ \E i, j \in DOMAIN all_results :
           /\ i < j
           /\ all_results[i].id = all_results[j].id
           /\ all_results[i].score < all_results[j].score

\* -------------------------------------------------------------- compression
\* langchain Document: page_content and the metadata keys the pipeline sets
\* (compression_ratio is compressed_length / original_length and is left
\* out; -1 stands for a key that is not set)
Doc(id, score, page_content) ==
    [id |-> id, score |-> score, page_content |-> page_content,
     compressed |-> FALSE, original_length |-> -1, compressed_length |-> -1,
     truncated |-> FALSE]

\* lines 130-142
CompressedDoc(doc, compressed_content) ==
    [doc EXCEPT !.page_content = compressed_content,
                !.compressed = TRUE,
                !.original_length = StrLen(doc.page_content),
                !.compressed_length = StrLen(compressed_content)]

\* line 126: len(text) // 4
DocTokens(text) == StrLen(text) \div 4

\* line 104
BudgetReached_Strict(total, max_len) == total > max_len

BudgetReached(total, max_len) == total >= max_len

\* line 118
IsNotRelevant(compressed_content) == compressed_content = NOT_RELEVANT

\* _compress_single_document: the stripped answer, or the original text when
\* the call fails
CompressSingleDocument_NoStrip(document_text, llm) ==
    IF llm.ok THEN llm.text ELSE document_text

CompressSingleDocument(document_text, llm) ==
    IF llm.ok THEN Strip(llm.text) ELSE document_text

NoCall == [calls |-> 0, status |-> "none", raw |-> EmptyText]

\* line 224: page_content[:chars] + "..."
TruncateText(text, chars) == T(text.core, chars + 3, 0)

\* _fallback_truncate, lines 212-235, from a running total on
RECURSIVE FallbackTruncateFrom(_, _, _)
FallbackTruncateFrom(docs, total, max_len) ==
    IF docs = << >> THEN << >>
    ELSE LET doc == Head(docs)
             doc_tokens == DocTokens(doc.page_content)
             remaining_chars == (max_len - total) * 4
         IN  IF total + doc_tokens > max_len THEN
                 IF remaining_chars > 0 THEN
                     << [doc EXCEPT
                           !.page_content = TruncateText(@, remaining_chars),
                           !.truncated = TRUE] >>
                 ELSE << >>
             ELSE << doc >> \o
                  FallbackTruncateFrom(Tail(docs), total + doc_tokens, max_len)

FallbackTruncate(docs, max_len) == FallbackTruncateFrom(docs, 0, max_len)

\* compress_documents, lines 85-100: the early returns and the loop set-up
CompressEnter ==
    /\ pc = "compress_enter"
    /\ IF c_documents = << >> THEN
           /\ documents' = << >>
           /\ c_outcome' = "returned"
           /\ pc' = "observe"
           /\ UNCHANGED << c_i, total_tokens, compressed_docs, llm_log >>
       ELSE IF IsBlank(query) THEN
           /\ documents' = c_documents
           /\ c_outcome' = "returned"
           /\ pc' = "observe"
           /\ UNCHANGED << c_i, total_tokens, compressed_docs, llm_log >>
       ELSE
           /\ compressed_docs' = << >>
           /\ total_tokens' = 0
           /\ c_i' = 1
           /\ llm_log' = [k \in DOMAIN c_documents |-> NoCall]
           /\ pc' = "compress"
           /\ UNCHANGED << documents, c_outcome >>
    /\ UNCHANGED << argVars, expandVars, embedVars, limiterVars, queries, query_embeddings, embed_status, searchVars,
                    all_results, unique_docs, c_documents, outcome >>

AppendCompressed_Front(docs, compressed_doc) == << compressed_doc >> \o docs

\* line 144: compressed_docs.append(compressed_doc)
AppendCompressed(docs, compressed_doc) == Append(docs, compressed_doc)

\* one iteration of the loop of lines 102-144 that does not break
CompressDocument ==
    /\ pc = "compress"
    /\ c_i <= Len(c_documents)
    /\ ~BudgetReached(total_tokens, max_context_length)
    /\ \E llm \in LLMResponses :
         LET doc == c_documents[c_i]
             compressed_content == CompressSingleDocument(doc.page_content, llm)
         IN  /\ llm_log' = [llm_log EXCEPT ![c_i] =
                    [calls |-> @.calls + 1,
                     status |-> IF llm.ok THEN "ok" ELSE "failed",
                     raw |-> llm.text]]
             /\ IF IsNotRelevant(compressed_content) THEN
                    UNCHANGED << total_tokens, compressed_docs >>
                ELSE
                    /\ total_tokens' = total_tokens + DocTokens(compressed_content)
                    /\ compressed_docs' =
                         AppendCompressed(compressed_docs,
                                          CompressedDoc(doc, compressed_content))
    /\ c_i' = c_i + 1
    /\ UNCHANGED << pc, argVars, expandVars, embedVars, limiterVars, queries, query_embeddings, embed_status, searchVars,
                    all_results, unique_docs, documents, c_documents,
                    c_outcome, outcome >>

\* the loop ends (exhausted, or the break of line 110) and line 153 returns
CompressReturn ==
    /\ pc = "compress"
    /\ \/ c_i > Len(c_documents)
       \/ BudgetReached(total_tokens, max_context_length)
    /\ documents' = compressed_docs
    /\ c_outcome' = "returned"
    /\ pc' = "observe"
    /\ UNCHANGED << argVars, expandVars, embedVars, limiterVars, queries, query_embeddings, embed_status, searchVars,
                    all_results, unique_docs, c_documents, c_i, total_tokens,
                    compressed_docs, llm_log, outcome >>

\* ------------------------------------------------------ the compressor alone
\* ranked input documents: distinct ids, scores not increasing
RankedDocs(texts) ==
    [k \in DOMAIN texts |->
        Doc(ToString(k), IF k = 1 THEN MaxScore ELSE 1, texts[k])]

InitCompress ==
    /\ pc = "compress_enter"
    /\ query \in QueryTexts
    /\ enable_multi_query = FALSE
    /\ enable_compression = TRUE
    /\ max_context_length \in Budgets
    /\ coll_exists = TRUE
    /\ metadata_filter = NoMetadataFilter
    /\ score_threshold = NoneArg
    /\ ExpandIdle
    /\ queries = << >>
    /\ query_embeddings = << >>
    /\ embed_status = "none"
    /\ vi = 1
    /\ attempt_number = 0
    /\ exists_calls = 0
    /\ index_calls = 0
    /\ search_log = << >>
    /\ all_results = << >>
    /\ unique_docs = << >>
    /\ documents = << >>
    /\ c_documents \in { RankedDocs(t) : t \in SeqsUpTo(DocTexts, MaxDocs) }
    /\ c_i = 1
    /\ total_tokens = 0
    /\ compressed_docs = << >>
    /\ llm_log = << >>
    /\ c_outcome = "none"
    /\ outcome = NoOutcome
    /\ EmbedIdle
    /\ LimiterIdle

NextCompress == CompressEnter \/ CompressDocument \/ CompressReturn

SpecCompress == InitCompress /\ [][NextCompress]_vars

RECURSIVE TotalCost(_)
TotalCost(docs) ==
    IF docs = << >> THEN 0
    ELSE TotalCost(Front(docs)) + DocTokens(Last(docs).page_content)

\* position of an emitted document in the compressor's input
PosOf(d) == CHOOSE k \in DOMAIN c_documents : c_documents[k].id = d.id

\* cost of the emitted documents that come from inputs before position j
RECURSIVE CostBefore(_, _)
CostBefore(docs, j) ==
    IF docs = << >> THEN 0
    ELSE CostBefore(Front(docs), j)
            + (IF PosOf(Last(docs)) < j THEN DocTokens(Last(docs).page_content) ELSE 0)

Emitted(j) == \E k \in DOMAIN compressed_docs :
                  compressed_docs[k].id = c_documents[j].id

\* C3 (as stated): the estimated token cost of the documents compress
\* returns never exceeds the budget; with budget 1000 and three relevant
\* documents costing 400 each the third one is not returned.
C3_TotalWithinBudget ==
    (c_outcome = "returned" /\ ~IsBlank(query)) =>
        /\ TotalCost(documents) <= max_context_length
        /\ ( /\ max_context_length = 1000
             /\ Len(c_documents) = 3
             /\ Len(llm_log) = 3
             /\ \A j \in 1..2 : Emitted(j)
             /\ \A k \in DOMAIN compressed_docs :
                    DocTokens(compressed_docs[k].page_content) = 400 )
           => ~Emitted(3)

\* C4: once the running total has reached the budget before a document is
\* processed, no text-generation call is issued for it and it is not in the
\* output.
C4_NoWorkAfterBudget ==
    \A j \in DOMAIN llm_log :
        CostBefore(compressed_docs, j) >= max_context_length =>
            /\ llm_log[j].calls = 0
            /\ ~Emitted(j)
            /\ (c_outcome = "returned" =>
                   \A k \in DOMAIN documents : documents[k].id # c_documents[j].id)

\* compress has returned and its last input was cut off by a total that
\* equals the budget exactly
C4_Witness ==
    /\ c_outcome = "returned"
    /\ Len(llm_log) = 3
    /\ total_tokens = max_context_length
    /\ llm_log[3].calls = 0
    /\ Len(documents) = 2

\* C6 (as stated): a document whose compression call fails is emitted with
\* its original content, and compress does not raise.
C6_FailedCallKeepsOriginal ==
    /\ c_outcome # "raised"
    /\ \A j \in DOMAIN llm_log :
           llm_log[j].status = "failed" =>
               \E k \in DOMAIN compressed_docs :
                   /\ compressed_docs[k].id = c_documents[j].id
                   /\ compressed_docs[k].page_content = c_documents[j].page_content

ContentsOf(docs) ==
    [k \in DOMAIN docs |-> << docs[k].id, docs[k].page_content >>]

\* C20 (as stated): when every text-generation call fails from the first
\* one on, compress returns the input documents truncated to the budget:
\* those that fit unchanged, the one crossing the boundary cut, the later
\* ones omitted.
C20_TotalFailureTruncates ==
    ( /\ c_outcome = "returned"
      /\ llm_log # << >>
      /\ llm_log[1].status = "failed"
      /\ \A j \in DOMAIN llm_log : llm_log[j].status # "ok" )
    => /\ ContentsOf(documents)
            = ContentsOf(FallbackTruncate(c_documents, max_context_length))
       /\ TotalCost(documents) <= max_context_length

\* ---------------------------------------------------------------- retrieve
\* lines 150-159: what retrieve raises for an exception e caught in its body
HandleRetrieveException_PassDomain(e) ==
    IF e.type \in {"CollectionNotFoundError", "QdrantQueryError", "EmbeddingError"}
    THEN [type |-> e.type, documents |-> << >>, details |-> e.details,
          cause |-> e.cause]
    ELSE [type |-> "RetrievalError", documents |-> << >>,
          details |-> Details(query, COLLECTION, -1), cause |-> e.type]

HandleRetrieveException(e) ==
    [type |-> "RetrievalError", documents |-> << >>,
     details |-> Details(query, COLLECTION, -1), cause |-> e.type]

\* --------------------------------------------------------- query expansion
\* MultiQueryRetriever.num_variations
num_variations == MaxVariations

\* lines the text-generation service may write in its answer: "v", "v " and
\* "w" are paraphrases, "q" repeats the query, " " is a blank line, and the
\* texts starting with "1." carry a numbering
ExpandLines ==
    { T("v", 6, 0), T("v", 6, 1), T("w", 7, 0), T("q", 5, 0), T("", 0, 1),
      T("1. v", 9, 0), T("1. q", 8, 0), T("1.", 2, 0) }

\* what llm_provider.generate may do for an expansion call: answer with a
\* text (given by its lines), raise, or answer without any generation
ExpandResponses ==
    { [status |-> "ok", lines |-> ls] : ls \in SeqsUpTo(ExpandLines, MaxLines) }
        \cup { [status |-> st, lines |-> << >>] : st \in {"raised", "malformed"} }

\* line 92: "." in var[:5]
HasEarlyDot(var) == var.core \in {"1. v", "1. q", "1."}

\* line 92: var.split(".", 1)[-1]
AfterFirstDot(var) ==
    CASE var.core = "1. v" -> T("v", var.n - 3, 1)
      [] var.core = "1. q" -> T("q", var.n - 3, 1)
      [] OTHER             -> T("", 0, var.n - 2)

\* lines 91-94
RemoveNumbering(var) ==
    IF HasEarlyDot(var) THEN Strip(AfterFirstDot(var)) ELSE var

\* lines 84-94: the non-blank lines, stripped, without their numbering
ParseVariations(lines) ==
    LET kept == SelectSeq(lines, LAMBDA line : ~IsBlank(line))
    IN  [k \in DOMAIN kept |-> RemoveNumbering(Strip(kept[k]))]

\* lines 97-99
IncludeOriginal(original_query, variations) ==
    << original_query >>
        \o SelectSeq(variations, LAMBDA var : var # original_query)

CapQueries_NoCap(all_queries) == all_queries

\* line 102
CapQueries(all_queries) ==
    SubSeq(all_queries, 1,
           IF Len(all_queries) < num_variations + 1 THEN Len(all_queries)
           ELSE num_variations + 1)

ExpandFallback_Empty(original_query) == << >>

\* lines 112-121
ExpandFallback(original_query) == << original_query >>

\* generate_queries: what it raises or returns, and the calls it made
GenerateQueries(original_query, response) ==
    IF IsBlank(original_query) THEN
        [raised |-> TRUE, queries |-> << >>, calls |-> 0]
    ELSE IF response.status # "ok" THEN
        [raised |-> FALSE, queries |-> ExpandFallback(original_query),
         calls |-> 1]
    ELSE
        [raised |-> FALSE,
         queries |-> CapQueries(IncludeOriginal(original_query,
                                    ParseVariations(response.lines))),
         calls |-> 1]

ExpandQueries_Always(original_query, enabled, response) ==
    GenerateQueries(original_query, response)

\* retrieve, lines 87-89
ExpandQueries(original_query, enabled, response) ==
    IF enabled THEN GenerateQueries(original_query, response)
    ELSE [raised |-> FALSE, queries |-> << original_query >>, calls |-> 0]

\* the expansion answers a whole retrieve is run against: a paraphrase, or
\* the query again under a numbering, on every line
RetrieveExpandResponses ==
    { r \in ExpandResponses :
        \A k \in DOMAIN r.lines : r.lines[k] \in {T("v", 6, 0), T("1. q", 8, 0)} }

\* step 1, lines 86-91
Expand ==
    /\ pc = "start"
    /\ \E response \in RetrieveExpandResponses :
         LET g == ExpandQueries(query, enable_multi_query, response)
         IN  /\ expand_calls' = g.calls
             /\ IF g.raised THEN
                    /\ outcome' = HandleRetrieveException(
                                      Exc("RetrievalError", "none", NoDetails))
                    /\ pc' = "raised"
                    /\ UNCHANGED queries
                ELSE
                    /\ queries' = g.queries
                    /\ pc' = "embed"
                    /\ UNCHANGED outcome
    /\ UNCHANGED << argVars, embedVars, limiterVars, expand_response, query_embeddings,
                    embed_status,
                    searchVars, all_results, unique_docs, documents,
                    compressVars >>

\* generate_queries called on its own
GenerateQueriesCall ==
    /\ pc = "expand_call"
    /\ \E response \in ExpandResponses :
         LET g == GenerateQueries(query, response)
         IN  /\ expand_calls' = g.calls
             /\ expand_response' = IF g.calls = 0 THEN NoResponse ELSE response
             /\ queries' = g.queries
             /\ outcome' = [NoOutcome EXCEPT
                               !.type = IF g.raised THEN "RetrievalError"
                                        ELSE "returned"]
    /\ pc' = "expand_done"
    /\ UNCHANGED << argVars, embedVars, limiterVars, query_embeddings, embed_status, searchVars,
                    all_results, unique_docs, documents, compressVars >>

InitExpand ==
    /\ pc = "expand_call"
    /\ query \in QueryTexts
    /\ enable_multi_query = TRUE
    /\ enable_compression = FALSE
    /\ max_context_length = 1000
    /\ coll_exists = TRUE
    /\ metadata_filter = NoMetadataFilter
    /\ score_threshold = NoneArg
    /\ ExpandIdle
    /\ queries = << >>
    /\ query_embeddings = << >>
    /\ embed_status = "none"
    /\ vi = 1
    /\ attempt_number = 0
    /\ exists_calls = 0
    /\ index_calls = 0
    /\ search_log = << >>
    /\ all_results = << >>
    /\ unique_docs = << >>
    /\ documents = << >>
    /\ c_documents = << >>
    /\ c_i = 1
    /\ total_tokens = 0
    /\ compressed_docs = << >>
    /\ llm_log = << >>
    /\ c_outcome = "none"
    /\ outcome = NoOutcome
    /\ EmbedIdle
    /\ LimiterIdle

NextExpand == GenerateQueriesCall

SpecExpand == InitExpand /\ [][NextExpand]_vars

ExpandDone == pc = "expand_done" /\ outcome.type = "returned"

\* the generated variants that are left after parsing, in generation order
GeneratedVariants ==
    SelectSeq(ParseVariations(expand_response.lines),
              LAMBDA var : var # query)

\* C15: for a non-empty query and any response, generate_queries returns
\* between 1 and num_variations + 1 queries: the original query first, then
\* the generated variants in the order they were generated
C15_OriginalFirstThenVariants ==
    (pc = "expand_done" /\ ~IsBlank(query)) =>
        /\ outcome.type = "returned"
        /\ Len(queries) >= 1
        /\ Len(queries) <= num_variations + 1
        /\ queries[1] = query
        /\ \A k \in 2..Len(queries) : queries[k] = GeneratedVariants[k - 1]

C15_Witness ==
    /\ ExpandDone
    /\ Len(expand_response.lines) = 3
    /\ Len(queries) = num_variations + 1
    /\ queries[2] # queries[3]

\* C16: the queries returned by generate_queries are pairwise different
C16_NoTwoEqual ==
    ExpandDone =>
        \A i, j \in DOMAIN queries : i # j => queries[i] # queries[j]

Embed ==
    /\ pc = "embed"
    /\ \E ok \in BOOLEAN :
         IF ok THEN
             /\ query_embeddings' = queries
             /\ embed_status' = "ok"
             /\ pc' = "search_check"
             /\ vi' = 1
             /\ attempt_number' = 1
             /\ UNCHANGED outcome
         ELSE
             /\ embed_status' = "EmbeddingError"
             /\ outcome' = HandleRetrieveException(
                               Exc("EmbeddingError", "Exception", NoDetails))
             /\ pc' = "raised"
             /\ UNCHANGED << query_embeddings, vi, attempt_number >>
    /\ UNCHANGED << argVars, expandVars, embedVars, limiterVars, queries, exists_calls, index_calls, search_log,
                    all_results, unique_docs, documents, compressVars >>

\* ------------------------------------------------------ QdrantManager.search
\* line 125: retry_if_exception_type((UnexpectedResponse, asyncio.TimeoutError))
RetryIf_AnyException(exc) == TRUE

RetryIf(exc) == exc.type \in {"UnexpectedResponse", "TimeoutError"}

\* line 126: stop_after_attempt(settings.qdrant_retry_attempts)
StopAfterAttempt(n) == n >= qdrant_retry_attempts

\* lines 100-108: the search loop has no handler of its own, an exception
\* of search leaves the loop
PropagatesFromLoop_Skip(exc) == FALSE

PropagatesFromLoop(exc) == TRUE

\* lines 191-197 / 159-162
QdrantQueryError(cause) ==
    Exc("QdrantQueryError", cause, Details(EmptyText, COLLECTION, TopK))

CollectionNotFoundError ==
    Exc("CollectionNotFoundError", "none", Details(EmptyText, COLLECTION, -1))

\* line 104: limit=self.top_k (the default of search's limit is 5)
SearchLimit_Default == 5

SearchLimit == TopK

\* line 105: score_threshold=self.score_threshold
SearchScoreThreshold == OrDefault(score_threshold, rag_score_threshold)

\* qdrant_client.py, line 168: score_threshold or settings.rag_score_threshold
IndexScoreThreshold == OrDefault(SearchScoreThreshold, rag_score_threshold)

\* line 106: query_filter=qdrant_filter, built once before the loop (line 97)
SearchFilter == BuildQdrantFilter(metadata_filter)

LogEntry(result, exc, hits) ==
    [variant |-> vi, attempts |-> attempt_number, result |-> result,
     exc |-> exc, hits |-> hits,
     exists_calls |-> exists_calls', index_calls |-> index_calls',
     limit |-> SearchLimit, score_threshold |-> SearchScoreThreshold,
     index_limit |-> SearchLimit, index_score_threshold |-> IndexScoreThreshold,
     query_filter |-> SearchFilter]

NoExc == Exc("none", "none", NoDetails)

\* the next variant's search starts, or the loop is over
NextVariant ==
    IF vi < Len(queries) THEN
        /\ vi' = vi + 1
        /\ attempt_number' = 1
        /\ pc' = "search_check"
    ELSE
        /\ pc' = "merge"
        /\ UNCHANGED << vi, attempt_number >>

\* the wrapped function raised exc: tenacity tries again or re-raises, and a
\* re-raised exception ends retrieve in its except clause
SearchRaised(exc) ==
    IF RetryIf(exc) /\ ~StopAfterAttempt(attempt_number) THEN
        /\ attempt_number' = attempt_number + 1
        /\ pc' = "search_check"
        /\ UNCHANGED << vi, search_log, outcome, all_results >>
    ELSE
        /\ search_log' = Append(search_log, LogEntry(exc.type, exc, << >>))
        /\ UNCHANGED all_results
        /\ IF PropagatesFromLoop(exc) THEN
               /\ outcome' = HandleRetrieveException(exc)
               /\ pc' = "raised"
               /\ UNCHANGED << vi, attempt_number >>
           ELSE
               /\ NextVariant
               /\ UNCHANGED outcome

\* lines 156-162 with _collection_exists (249-268): a listing that fails
\* counts as "does not exist"
SearchCheckExists ==
    /\ pc = "search_check"
    /\ exists_calls' = (IF attempt_number = 1 THEN 0 ELSE exists_calls) + 1
    /\ index_calls' = (IF attempt_number = 1 THEN 0 ELSE index_calls)
    /\ \E listed \in BOOLEAN :
         IF listed /\ coll_exists THEN
             /\ pc' = "search_query"
             /\ UNCHANGED << vi, attempt_number, search_log, outcome, all_results >>
         ELSE
             SearchRaised(CollectionNotFoundError)
    /\ UNCHANGED << argVars, expandVars, embedVars, limiterVars, queries, query_embeddings, embed_status,
                    unique_docs, documents, compressVars >>

\* what client.search may do
IndexFailures == {"TimeoutError", "UnexpectedResponse", "ConnectionError"}

\* lines 164-197, and lines 108-114 of retrieve when search returns
SearchQuery ==
    /\ pc = "search_query"
    /\ index_calls' = index_calls + 1
    /\ UNCHANGED exists_calls
    /\ \/ \E hits \in IndexAnswers(query_embeddings[vi], SearchLimit,
                                IndexScoreThreshold, SearchFilter) :
            /\ all_results' = all_results \o hits
            /\ search_log' = Append(search_log, LogEntry("ok", NoExc, hits))
            /\ NextVariant
            /\ UNCHANGED outcome
       \/ \E failure \in IndexFailures :
            SearchRaised(QdrantQueryError(failure))
    /\ UNCHANGED << argVars, expandVars, embedVars, limiterVars, queries, query_embeddings, embed_status,
                    unique_docs, documents, compressVars >>

\* ------------------------------------------------- retrieve, steps 5 to 8
\* lines 240-242: page_content, or text when page_content is empty
PageContent(payload) ==
    IF StrLen(payload.page_content) > 0 THEN payload.page_content
    ELSE payload.text

\* lines 245-249: "id" and "score" are set first and the payload's items are
\* unpacked after them, so a payload key of the same name replaces them
MetadataId(result) ==
    IF "id" \in result.payload.keys THEN result.payload.id
    ELSE ToString(result.id)

MetadataScore(result) ==
    IF "score" \in result.payload.keys THEN result.payload.score
    ELSE result.score

\* _convert_to_documents
ConvertToDocuments(results) ==
    [k \in DOMAIN results |->
        Doc(MetadataId(results[k]), MetadataScore(results[k]),
            PageContent(results[k].payload))]

\* step 5 and the test of line 129
Convert ==
    /\ pc = "convert"
    /\ documents' = ConvertToDocuments(unique_docs)
    /\ IF enable_compression /\ documents' # << >> THEN
           /\ c_documents' = documents'
           /\ pc' = "compress_enter"
       ELSE
           /\ pc' = "observe"
           /\ UNCHANGED c_documents
    /\ UNCHANGED << argVars, expandVars, embedVars, limiterVars, queries, query_embeddings, embed_status,
                    searchVars, all_results, unique_docs, c_i, total_tokens,
                    compressed_docs, llm_log, c_outcome, outcome >>

\* lines 132-148
Return ==
    /\ pc = "observe"
    /\ outcome' = [type |-> "returned", documents |-> documents,
                   details |-> NoDetails, cause |-> "none"]
    /\ pc' = "done"
    /\ UNCHANGED << argVars, expandVars, embedVars, limiterVars, queries, query_embeddings, embed_status,
                    searchVars, all_results, unique_docs, documents,
                    compressVars >>

Init ==
    /\ pc = "start"
    /\ query \in QueryTexts
    /\ enable_multi_query \in BOOLEAN
    /\ enable_compression \in BOOLEAN
    /\ max_context_length \in Budgets
    /\ coll_exists \in BOOLEAN
    /\ metadata_filter \in MetadataFilters
    /\ score_threshold \in ScoreThresholdArgs
    /\ ExpandIdle
    /\ queries = << >>
    /\ query_embeddings = << >>
    /\ embed_status = "none"
    /\ vi = 1
    /\ attempt_number = 0
    /\ exists_calls = 0
    /\ index_calls = 0
    /\ search_log = << >>
    /\ all_results = << >>
    /\ unique_docs = << >>
    /\ documents = << >>
    /\ c_documents = << >>
    /\ c_i = 1
    /\ total_tokens = 0
    /\ compressed_docs = << >>
    /\ llm_log = << >>
    /\ c_outcome = "none"
    /\ outcome = NoOutcome
    /\ EmbedIdle
    /\ LimiterIdle

Next ==
    \/ Expand
    \/ Embed
    \/ SearchCheckExists
    \/ SearchQuery
    \/ Deduplicate
    \/ Convert
    \/ CompressEnter
    \/ CompressDocument
    \/ CompressReturn
    \/ Return

Spec == Init /\ [][Next]_vars

FailedSearches == { k \in DOMAIN search_log : search_log[k].result # "ok" }

\* C5: a document whose compression call answers the sentinel is neither in
\* the compressor's output nor in what retrieve returns, and the running
\* total counts the emitted documents only.
C5_NotRelevantDropped ==
    /\ total_tokens = TotalCost(compressed_docs)
    /\ \A j \in DOMAIN llm_log :
           (llm_log[j].status = "ok" /\ Strip(llm_log[j].raw) = NOT_RELEVANT) =>
               /\ ~Emitted(j)
               /\ \A k \in DOMAIN outcome.documents :
                      outcome.documents[k].id # c_documents[j].id

\* retrieve has returned a document that follows one answered with the
\* sentinel
C5_Witness ==
    /\ outcome.type = "returned"
    /\ \E j \in DOMAIN llm_log :
           /\ llm_log[j].status = "ok"
           /\ Strip(llm_log[j].raw) = NOT_RELEVANT
           /\ llm_log[j].raw # NOT_RELEVANT
           /\ \E k \in DOMAIN outcome.documents :
                  PosOf(outcome.documents[k]) > j

\* C7: when the embedding step or a search fails, retrieve ends by raising a
\* RetrievalError that carries the query and the collection name; no other
\* exception class leaves retrieve.
C7_FailuresBecomeRetrievalError ==
    /\ outcome.type \in {"none", "returned", "RetrievalError"}
    /\ (embed_status = "EmbeddingError" \/ FailedSearches # {}) =>
           /\ pc = "raised"
           /\ outcome.type = "RetrievalError"
           /\ outcome.details.query = query
           /\ outcome.details.collection = COLLECTION

\* a search that found no collection has ended retrieve
C7_Witness ==
    /\ pc = "raised"
    /\ \E k \in FailedSearches :
           search_log[k].result = "CollectionNotFoundError"
    /\ outcome.cause = "CollectionNotFoundError"

\* C8 (as stated): when one variant's search times out and another
\* variant's search succeeds, retrieve returns the merged hits of the
\* successful variants.
C8_PartialResultsReturned ==
    ( /\ pc \in {"done", "raised"}
      /\ \E k \in DOMAIN search_log : search_log[k].exc.cause = "TimeoutError"
      /\ \E k \in DOMAIN search_log : search_log[k].result = "ok" )
    => /\ outcome.type = "returned"
       /\ \A k \in DOMAIN search_log : \A h \in DOMAIN search_log[k].hits :
              \E d \in DOMAIN outcome.documents :
                  outcome.documents[d].id = ToString(search_log[k].hits[h].id)

\* C8 (amended): when one variant's search times out, retrieve returns no
\* result: it raises a RetrievalError, the hits of the variants searched
\* before are discarded and the variants after it are not searched.
C8_TimeoutAbortsRetrieve ==
    \A k \in DOMAIN search_log :
        search_log[k].exc.cause = "TimeoutError" =>
            /\ pc = "raised"
            /\ outcome.type = "RetrievalError"
            /\ outcome.documents = << >>
            /\ k = Len(search_log)

\* the first variant's search returned hits, the second one timed out
C8_Witness ==
    /\ pc = "raised"
    /\ Len(search_log) = 2
    /\ search_log[1].result = "ok"
    /\ search_log[1].hits # << >>
    /\ search_log[2].exc.cause = "TimeoutError"

\* C9 (as stated): a transient index error is retried, and search raises a
\* QueryError (carrying collection name and limit) only after all
\* qdrant_retry_attempts attempts have failed.
C9_TransientErrorsRetried ==
    \A k \in DOMAIN search_log :
        ( /\ search_log[k].result = "QdrantQueryError"
          /\ search_log[k].exc.cause \in {"TimeoutError", "UnexpectedResponse"} )
        => /\ search_log[k].index_calls = qdrant_retry_attempts
           /\ search_log[k].exc.details.collection = COLLECTION
           /\ search_log[k].exc.details.limit = TopK

\* C10: search checks the collection before it queries the index; for a
\* collection the index does not hold it raises CollectionNotFound after a
\* single attempt, and the index is never queried.
C10_MissingCollectionNotRetried ==
    /\ index_calls <= exists_calls
    /\ pc = "search_query" => exists_calls = index_calls + 1
    /\ ~coll_exists =>
           /\ index_calls = 0
           /\ attempt_number <= 1
           /\ \A k \in DOMAIN search_log :
                  /\ search_log[k].result = "CollectionNotFoundError"
                  /\ search_log[k].attempts = 1
                  /\ search_log[k].exists_calls = 1
                  /\ search_log[k].index_calls = 0

\* the listing worked, the collection was not in it, search has raised
C10_Witness ==
    /\ ~coll_exists
    /\ pc = "raised"
    /\ Len(search_log) = 1
    /\ search_log[1].result = "CollectionNotFoundError"
    /\ search_log[1].exists_calls = 1

\* C11 (as stated): retrieve never returns more than top_k documents.
C11_AtMostTopK ==
    outcome.type = "returned" => Len(outcome.documents) <= TopK

\* C11 (amended): retrieve never returns more than top_k documents per
\* query variant searched.
C11_AtMostTopKPerVariant ==
    outcome.type = "returned" =>
        Len(outcome.documents) <= TopK * Len(queries)

\* two variants were searched and more than top_k documents came back
C11_Witness ==
    /\ outcome.type = "returned"
    /\ Len(queries) = 2
    /\ Len(outcome.documents) > TopK

\* C18: a retrieve that returns has made one search call per query variant,
\* all with the same limit, score threshold and filter; with
\* enable_multi_query off the only variant is the query, no expansion call
\* is made and one search call is made
C18_OneSearchPerVariant ==
    outcome.type = "returned" =>
        /\ Len(search_log) = Len(queries)
        /\ \A k \in DOMAIN search_log :
               /\ search_log[k].variant = k
               /\ search_log[k].limit = search_log[1].limit
               /\ search_log[k].score_threshold = search_log[1].score_threshold
               /\ search_log[k].query_filter = search_log[1].query_filter
        /\ ~enable_multi_query =>
               /\ queries = << query >>
               /\ expand_calls = 0
               /\ Len(search_log) = 1

C18_Witness ==
    /\ outcome.type = "returned"
    /\ ~enable_multi_query
    /\ Len(search_log) = 1
    /\ search_log[1].hits # << >>
    /\ ~search_log[1].query_filter.none

\* ------------------------------------------- embed_query, embed_documents
retrieveVars ==
    << pc, argVars, expandVars, queries, query_embeddings, embed_status,
       searchVars, all_results, unique_docs, documents, compressVars, outcome >>

\* stop_after_attempt(3), lines 60 and 116
embed_retry_attempts == 3

\* retry_if_exception_type(Exception), lines 59 and 115
EmbedRetryIf(exc_type) == TRUE

EmbedStopAfterAttempt_Never(n) == FALSE

EmbedStopAfterAttempt(n) == n >= embed_retry_attempts

IsCached_Never(c, text, use_cache) == FALSE

\* lines 82-84 and 146-148
IsCached(c, text, use_cache) == use_cache /\ c[CacheKey(text)] # NoVec

Positions(texts) == [i \in 1..Len(texts) |-> i]

\* lines 145-153: the positions that are sent to the service
TextIndices(c, texts, use_cache) ==
    SelectSeq(Positions(texts), LAMBDA i : ~IsCached(c, texts[i], use_cache))

\* lines 145-153
TextsToEmbed(c, texts, use_cache) ==
    LET ti == TextIndices(c, texts, use_cache)
    IN  [k \in DOMAIN ti |-> texts[ti[k]]]

\* lines 145-150: the vectors found in the cache, in input order
CachedEmbeddings(c, texts, use_cache) ==
    LET ci == SelectSeq(Positions(texts),
                        LAMBDA i : IsCached(c, texts[i], use_cache))
    IN  [k \in DOMAIN ci |-> c[CacheKey(texts[ci[k]])]]

\* what one call of the embedding service may do: answer with one vector
\* per text, answer with one vector too few, or raise
ServiceOutcomes == {"ok", "short", "raised"}

ServiceVectors(texts, gen, status) ==
    LET all == [k \in DOMAIN texts |-> Vec(texts[k], gen)]
    IN  CASE status = "ok"    -> all
          [] status = "short" -> Front(all)
          [] OTHER            -> << >>

ServiceCall(texts, gen, status) ==
    [texts |-> texts, gen |-> gen, status |-> status]

\* lines 94-96 and 165-168: zip(texts_to_embed, new_embeddings), a later
\* pair overwriting an earlier one of the same key
CountWrites(w, texts, vectors, use_cache) ==
    IF ~use_cache THEN w
    ELSE [key \in DOMAIN w |->
            w[key] + Cardinality({ k \in DOMAIN texts :
                                     k <= Len(vectors)
                                     /\ CacheKey(texts[k]) = key })]

StoreAll(c, texts, vectors, use_cache) ==
    IF ~use_cache THEN c
    ELSE [key \in DOMAIN c |->
            LET ks == { k \in DOMAIN texts :
                          k <= Len(vectors) /\ CacheKey(texts[k]) = key }
            IN  IF ks = {} THEN c[key]
                ELSE vectors[CHOOSE k \in ks : \A j \in ks : j <= k]]

MergeEmbeddings_Concat(n, text_indices, new_embeddings, embeddings) ==
    embeddings \o new_embeddings

\* lines 171-183: new_idx and cached_idx count the positions passed so far
MergeEmbeddings(n, text_indices, new_embeddings, embeddings) ==
    LET sent(i) == \E k \in DOMAIN text_indices : text_indices[k] = i
        new_idx(i) == Cardinality({ j \in 1..i : sent(j) })
        cached_idx(i) == Cardinality({ j \in 1..i : ~sent(j) })
    IN  [i \in 1..n |->
            IF sent(i) THEN new_embeddings[new_idx(i)]
            ELSE embeddings[cached_idx(i)]]

\* the vectors a finished caching call returned, per text
StoredNow ==
    IF /\ e_pc = "done"
       /\ e_result.status = "returned"
       /\ e_op.use_cache
       /\ e_op.kind \in {"embed_query", "embed_documents"}
    THEN [t \in EmbedTexts |->
            LET ks == { k \in DOMAIN e_op.texts : e_op.texts[k] = t }
            IN  IF ks = {} THEN stored[t]
                ELSE e_result.vectors[CHOOSE k \in ks : \A j \in ks : j <= k]]
    ELSE stored

\* an operation is called when no other is running
BeginOp(op, first_pc) ==
    /\ e_pc \in {"idle", "done"}
    /\ prev_op' = e_op.kind
    /\ stored' = StoredNow
    /\ e_op' = op
    /\ e_pc' = first_pc
    /\ e_attempt' = 1
    /\ e_locals' = NoLocals
    /\ e_calls' = << >>
    /\ e_result' = NoEmbedResult
    /\ UNCHANGED << cache, cache_writes, e_cache_before, e_gen, retrieveVars,
                    bg, limiterVars >>

BeginEmbedQuery ==
    \E text \in EmbedTexts, use_cache \in BOOLEAN :
        BeginOp(EmbedOp("embed_query", << text >>, use_cache), "query_attempt")

\* lists a run of the manager hands to embed_documents
SessionBatches ==
    { << >>, << T("a", 1, 0) >>, << T("", 0, 1) >>,
      << T("a", 1, 0), T("b", 1, 0) >> }

BeginEmbedDocuments ==
    \E texts \in SessionBatches, use_cache \in BOOLEAN :
        BeginOp(EmbedOp("embed_documents", texts, use_cache),
                "documents_attempt")

\* the wrapped function raised EmbeddingError: tenacity runs it again or
\* re-raises
EmbedRaised(attempt_pc) ==
    IF EmbedRetryIf("EmbeddingError") /\ ~EmbedStopAfterAttempt(e_attempt) THEN
        /\ e_attempt' = e_attempt + 1
        /\ e_pc' = attempt_pc
        /\ UNCHANGED e_result
    ELSE
        /\ e_result' = EmbedResult("EmbeddingError", << >>)
        /\ e_pc' = "done"
        /\ UNCHANGED e_attempt

EmbedReturn(vectors) ==
    /\ e_result' = EmbedResult("returned", vectors)
    /\ e_pc' = "done"
    /\ UNCHANGED e_attempt

\* embed_query, lines 78-91, up to the await
EmbedQueryAttempt ==
    /\ e_pc = "query_attempt"
    /\ e_cache_before' = cache
    /\ LET text == e_op.texts[1]
       IN  IF IsBlank(text) THEN
               /\ EmbedRaised("query_attempt")
               /\ UNCHANGED << e_calls, e_gen >>
           ELSE IF IsCached(cache, text, e_op.use_cache) THEN
               /\ EmbedReturn(<< cache[CacheKey(text)] >>)
               /\ UNCHANGED << e_calls, e_gen >>
           ELSE
               /\ e_gen < MaxCalls
               /\ e_gen' = e_gen + 1
               /\ e_calls' = Append(e_calls,
                                    ServiceCall(<< text >>, e_gen', "pending"))
               /\ e_pc' = "query_await"
               /\ UNCHANGED << e_attempt, e_result >>
    /\ UNCHANGED << cache, cache_writes, stored, prev_op, e_op, e_locals,
                    retrieveVars, bg, limiterVars >>

\* embed_query, lines 91-112, from the await on
EmbedQueryAwait ==
    /\ e_pc = "query_await"
    /\ \E status \in ServiceOutcomes \ {"short"} :
         LET call == Last(e_calls)
             embedding == ServiceVectors(call.texts, call.gen, status)
         IN  /\ e_calls' = [e_calls EXCEPT ![Len(e_calls)].status = status]
             /\ IF status = "ok" THEN
                    /\ cache' = StoreAll(cache, call.texts, embedding,
                                         e_op.use_cache)
                    /\ cache_writes' = CountWrites(cache_writes, call.texts,
                                                   embedding, e_op.use_cache)
                    /\ EmbedReturn(embedding)
                ELSE
                    /\ EmbedRaised("query_attempt")
                    /\ UNCHANGED << cache, cache_writes >>
    /\ UNCHANGED << stored, prev_op, e_op, e_locals, e_cache_before, e_gen,
                    retrieveVars, bg, limiterVars >>

\* embed_documents, lines 136-162, up to the await
EmbedDocumentsAttempt ==
    /\ e_pc = "documents_attempt"
    /\ e_cache_before' = cache
    /\ LET texts == e_op.texts
           locals == [embeddings |->
                          CachedEmbeddings(cache, texts, e_op.use_cache),
                      texts_to_embed |->
                          TextsToEmbed(cache, texts, e_op.use_cache),
                      text_indices |->
                          TextIndices(cache, texts, e_op.use_cache)]
       IN  IF texts = << >> THEN
               /\ EmbedReturn(<< >>)
               /\ UNCHANGED << e_locals, e_calls, e_gen >>
           ELSE IF locals.texts_to_embed = << >> THEN
               /\ e_locals' = locals
               /\ EmbedReturn(locals.embeddings)
               /\ UNCHANGED << e_calls, e_gen >>
           ELSE
               /\ e_gen < MaxCalls
               /\ e_locals' = locals
               /\ e_gen' = e_gen + 1
               /\ e_calls' = Append(e_calls,
                                    ServiceCall(locals.texts_to_embed, e_gen',
                                                "pending"))
               /\ e_pc' = "documents_await"
               /\ UNCHANGED << e_attempt, e_result >>
    /\ UNCHANGED << cache, cache_writes, stored, prev_op, e_op, retrieveVars,
                    bg, limiterVars >>

\* embed_documents, lines 162-199, from the await on: a list that is too
\* short is cached as far as it goes and then fails the merge (IndexError)
EmbedDocumentsAwait ==
    /\ e_pc = "documents_await"
    /\ \E status \in ServiceOutcomes :
         LET call == Last(e_calls)
             new_embeddings == ServiceVectors(call.texts, call.gen, status)
         IN  /\ e_calls' = [e_calls EXCEPT ![Len(e_calls)].status = status]
             /\ IF status = "raised" THEN
                    /\ EmbedRaised("documents_attempt")
                    /\ UNCHANGED << cache, cache_writes >>
                ELSE
                    /\ cache' = StoreAll(cache, call.texts, new_embeddings,
                                         e_op.use_cache)
                    /\ cache_writes' = CountWrites(cache_writes, call.texts,
                                                   new_embeddings,
                                                   e_op.use_cache)
                    /\ IF Len(new_embeddings) < Len(e_locals.text_indices) THEN
                           EmbedRaised("documents_attempt")
                       ELSE
                           EmbedReturn(
                               MergeEmbeddings(Len(e_op.texts),
                                               e_locals.text_indices,
                                               new_embeddings,
                                               e_locals.embeddings))
    /\ UNCHANGED << stored, prev_op, e_op, e_locals, e_cache_before, e_gen,
                    retrieveVars, bg, limiterVars >>

\* clear_cache
ClearCache ==
    /\ e_pc \in {"idle", "done"}
    /\ prev_op' = e_op.kind
    /\ cache' = EmptyCache
    /\ cache_writes' = NoWrites
    /\ stored' = NoStored
    /\ e_op' = EmbedOp("clear_cache", << >>, FALSE)
    /\ e_pc' = "done"
    /\ e_attempt' = 1
    /\ e_locals' = NoLocals
    /\ e_calls' = << >>
    /\ e_result' = EmbedResult("returned", << >>)
    /\ UNCHANGED << e_cache_before, e_gen, retrieveVars, bg, limiterVars >>

\* the state of retrieve's variables while the embeddings manager is run on
\* its own
RetrieveIdle ==
    /\ pc = "embeddings"
    /\ query = T("q", 5, 0)
    /\ enable_multi_query = FALSE
    /\ enable_compression = FALSE
    /\ max_context_length = 1000
    /\ coll_exists = TRUE
    /\ metadata_filter = NoMetadataFilter
    /\ score_threshold = NoneArg
    /\ ExpandIdle
    /\ queries = << >>
    /\ query_embeddings = << >>
    /\ embed_status = "none"
    /\ vi = 1
    /\ attempt_number = 0
    /\ exists_calls = 0
    /\ index_calls = 0
    /\ search_log = << >>
    /\ all_results = << >>
    /\ unique_docs = << >>
    /\ documents = << >>
    /\ c_documents = << >>
    /\ c_i = 1
    /\ total_tokens = 0
    /\ compressed_docs = << >>
    /\ llm_log = << >>
    /\ c_outcome = "none"
    /\ outcome = NoOutcome

\* a run of the embeddings manager: calls one after the other, starting
\* with the empty cache of line 26
InitEmbed ==
    /\ RetrieveIdle
    /\ LimiterIdle
    /\ EmbedIdle

NextEmbed ==
    \/ BeginEmbedQuery
    \/ EmbedQueryAttempt
    \/ EmbedQueryAwait
    \/ BeginEmbedDocuments
    \/ EmbedDocumentsAttempt
    \/ EmbedDocumentsAwait
    \/ ClearCache

SpecEmbed == InitEmbed /\ [][NextEmbed]_vars

\* caches earlier calls may have left: any of the texts cached
CachesBefore ==
    { [key \in CacheKeys |->
          IF \E t \in S : CacheKey(t) = key
          THEN Vec(CHOOSE t \in S : CacheKey(t) = key, 0)
          ELSE NoVec] : S \in SUBSET EmbedTexts }

\* one embed_documents call, on any list and any cache
InitEmbedBatch ==
    /\ RetrieveIdle
    /\ LimiterIdle
    /\ cache \in CachesBefore
    /\ stored = NoStored
    /\ prev_op = "none"
    /\ \E texts \in SeqsUpTo(EmbedTexts, MaxBatch), use_cache \in BOOLEAN :
          e_op = EmbedOp("embed_documents", texts, use_cache)
    /\ e_pc = "documents_attempt"
    /\ e_attempt = 1
    /\ e_locals = NoLocals
    /\ e_cache_before = cache
    /\ e_calls = << >>
    /\ e_gen = 0
    /\ e_result = NoEmbedResult
    /\ cache_writes = NoWrites
    /\ bg = NoBg

NextEmbedBatch == EmbedDocumentsAttempt \/ EmbedDocumentsAwait

SpecEmbedBatch == InitEmbedBatch /\ [][NextEmbedBatch]_vars

EmbedBatchReturned ==
    /\ e_pc = "done"
    /\ e_op.kind = "embed_documents"
    /\ e_result.status = "returned"

\* whether the attempt that returned found the text in the cache
FoundCached(text) ==
    e_op.use_cache /\ e_cache_before[CacheKey(text)] # NoVec

\* C12: a successful embed_documents returns one vector per input text, and
\* the vector at position i is the vector of the text at position i: the
\* cached one if the text was cached, else the one the service returned
C12_OneVectorPerInputInOrder ==
    EmbedBatchReturned =>
        /\ Len(e_result.vectors) = Len(e_op.texts)
        /\ \A i \in DOMAIN e_op.texts :
              /\ e_result.vectors[i].text = e_op.texts[i]
              /\ e_result.vectors[i] =
                    IF FoundCached(e_op.texts[i])
                    THEN e_cache_before[CacheKey(e_op.texts[i])]
                    ELSE Vec(e_op.texts[i], Last(e_calls).gen)

C12_Witness ==
    /\ EmbedBatchReturned
    /\ Len(e_op.texts) = 3
    /\ ~FoundCached(e_op.texts[1])
    /\ FoundCached(e_op.texts[2])
    /\ ~FoundCached(e_op.texts[3])
    /\ e_op.texts[1] # e_op.texts[3]

\* the texts of the input that the cache does not answer
UncachedTexts ==
    { e_op.texts[i] : i \in { j \in DOMAIN e_op.texts :
                                ~FoundCached(e_op.texts[j]) } }

\* C13: when the embedding service does not fail, embed_documents makes one
\* service call whose texts are the distinct uncached texts of the input, no
\* call when every text is cached, and returns equal vectors at positions
\* that hold equal texts
C13_OneCallForUncached ==
    ( /\ e_pc = "done"
      /\ e_op.kind = "embed_documents"
      /\ \A k \in DOMAIN e_calls : e_calls[k].status = "ok" )
    => /\ e_result.status = "returned"
       /\ IF UncachedTexts = {} THEN e_calls = << >>
          ELSE /\ Len(e_calls) = 1
               /\ { e_calls[1].texts[k] : k \in DOMAIN e_calls[1].texts }
                      = UncachedTexts
       /\ \A i, j \in DOMAIN e_op.texts :
              e_op.texts[i] = e_op.texts[j]
                  => e_result.vectors[i] = e_result.vectors[j]

C13_Witness ==
    /\ EmbedBatchReturned
    /\ e_op.texts = << T("a", 1, 0), T("b", 1, 0), T("a", 1, 0) >>
    /\ e_op.use_cache
    /\ UncachedTexts = { T("a", 1, 0), T("b", 1, 0) }
    /\ Len(e_calls) = 1
    /\ e_calls[1].status = "ok"
    /\ e_result.vectors[1] = e_result.vectors[3]

\* C14: once embed_query(t) or an embed_documents holding t has succeeded
\* with caching on, a later embed_query(t) returns the stored vector without
\* a service call, until clear_cache; the embed_query(t) that follows a
\* clear_cache calls the service
C14_CachedUntilCleared ==
    (e_pc = "done" /\ e_op.kind = "embed_query" /\ e_op.use_cache) =>
        LET t == e_op.texts[1]
        IN  /\ stored[t] # NoVec =>
                  /\ e_result = EmbedResult("returned", << stored[t] >>)
                  /\ e_calls = << >>
            /\ prev_op = "clear_cache" => e_calls # << >>

\* C27: for a non-empty query and any response, no query returned by
\* generate_queries is empty or only whitespace
C27_NoBlankVariant ==
    ExpandDone => \A k \in DOMAIN queries : ~IsBlank(queries[k])

\* C22: an embed_query of an empty or whitespace-only text, and an
\* embed_documents with such a text among its inputs, fails, and no service
\* call carries such a text
C22_BlankRejected ==
    /\ \A k \in DOMAIN e_calls :
          \A i \in DOMAIN e_calls[k].texts : ~IsBlank(e_calls[k].texts[i])
    /\ ( /\ e_pc = "done"
         /\ e_op.kind \in {"embed_query", "embed_documents"}
         /\ \E i \in DOMAIN e_op.texts : IsBlank(e_op.texts[i]) )
       => e_result.status = "EmbeddingError"

\* C24: the documents compress_documents returns appear in the order they
\* had in its input, so scores that do not increase in the input do not
\* increase in the output
C24_OutputKeepsInputOrder ==
    (pc = "observe" /\ c_outcome = "returned") =>
        \A i, j \in DOMAIN documents :
            i < j => /\ PosOf(documents[i]) < PosOf(documents[j])
                     /\ documents[i].score >= documents[j].score

C24_Witness ==
    /\ pc = "observe"
    /\ c_outcome = "returned"
    /\ Len(c_documents) = 3
    /\ Len(documents) = 2
    /\ PosOf(documents[1]) = 1
    /\ PosOf(documents[2]) = 3
    /\ documents[1].score > documents[2].score
    /\ documents[1].compressed

\* ------------------------------------------ one embeddings call to its end
\* one embed_query or embed_documents call, on any input and any cache
InitEmbedCall ==
    /\ RetrieveIdle
    /\ LimiterIdle
    /\ cache \in CachesBefore
    /\ stored = NoStored
    /\ prev_op = "none"
    /\ \E use_cache \in BOOLEAN :
          \/ \E text \in EmbedTexts :
                /\ e_op = EmbedOp("embed_query", << text >>, use_cache)
                /\ e_pc = "query_attempt"
          \/ \E texts \in SeqsUpTo(EmbedTexts, MaxBatch) :
                /\ e_op = EmbedOp("embed_documents", texts, use_cache)
                /\ e_pc = "documents_attempt"
    /\ e_attempt = 1
    /\ e_locals = NoLocals
    /\ e_cache_before = cache
    /\ e_calls = << >>
    /\ e_gen = 0
    /\ e_result = NoEmbedResult
    /\ cache_writes = NoWrites
    /\ bg = NoBg

NextEmbedCall ==
    \/ EmbedQueryAttempt
    \/ EmbedQueryAwait
    \/ EmbedDocumentsAttempt
    \/ EmbedDocumentsAwait

\* the event loop runs the call on: a started attempt reaches its service
\* call, the service answers or fails, and the backoff wait ends
SpecEmbedCall ==
    InitEmbedCall /\ [][NextEmbedCall]_vars /\ WF_vars(NextEmbedCall)

EveryAttemptFailedInService ==
    /\ Len(e_calls) = e_attempt
    /\ \A k \in DOMAIN e_calls : e_calls[k].status \in {"raised", "short"}

EmbedCallBounded ==
    /\ e_attempt <= embed_retry_attempts
    /\ Len(e_calls) <= e_attempt
    /\ e_pc = "done" =>
          /\ e_result.status \in {"returned", "EmbeddingError"}
          /\ EveryAttemptFailedInService =>
                /\ e_result.status = "EmbeddingError"
                /\ Len(e_calls) = embed_retry_attempts
          /\ (e_calls # << >> /\ Last(e_calls).status = "ok") =>
                /\ e_result.status = "returned"
                /\ \A i \in DOMAIN e_op.texts :
                      ~FoundCached(e_op.texts[i]) =>
                          e_result.vectors[i] =
                              Vec(e_op.texts[i], Last(e_calls).gen)

\* C21: embed_query and embed_documents end: with the service failing at
\* every attempt they make at most 3 service calls and raise EmbeddingError,
\* nothing else; when an attempt's call succeeds its vectors are returned
C21_EndsWithinRetryBudget ==
    []EmbedCallBounded /\ <>(e_pc = "done")

C21_Witness ==
    /\ e_pc = "done"
    /\ e_op.kind = "embed_documents"
    /\ Len(e_calls) = embed_retry_attempts
    /\ EveryAttemptFailedInService
    /\ e_result.status = "EmbeddingError"

\* C28: a search call ends in CollectionNotFoundError only when the index
\* does not hold the collection
C28_NotFoundOnlyWhenMissing ==
    \A k \in DOMAIN search_log :
        search_log[k].exc.type = "CollectionNotFoundError" => ~coll_exists

\* C29: every returned document carries the id and the retained score of a
\* merged hit, whatever keys the hit's payload holds
C29_MetadataIdAndScoreOfHit ==
    outcome.type = "returned" =>
        \A k \in DOMAIN outcome.documents :
            \E j \in DOMAIN unique_docs :
                /\ outcome.documents[k].id = ToString(unique_docs[j].id)
                /\ outcome.documents[k].score = unique_docs[j].score

\* C30: in every search of retrieve that reaches the index, the index gets
\* the top_k and the score_threshold the pipeline was constructed with, a
\* threshold of 0 included
C30_ConstructedArgsReachIndex ==
    \A k \in DOMAIN search_log :
        search_log[k].index_calls > 0 =>
            /\ search_log[k].index_limit = TopK
            /\ score_threshold # NoneArg =>
                  search_log[k].index_score_threshold = score_threshold

\* --------------------------------------------------------- the rate limiter
\* settings.rate_limit_requests_per_hour and settings.rate_limit_tokens_per_day
\* of the deployment under study
rate_limit_requests_per_hour == 2

rate_limit_tokens_per_day == 3

\* lines 83 and 113: the request window and the key's expiry, in seconds
RequestWindow == 3600

\* lines 146 and 177: the token window and the key's expiry, in seconds
TokenWindow == 86400

\* clock advances between two checks, and how many of them a run has
TimeSteps == {1, RequestWindow, TokenWindow}

MaxTicks == 2

\* checks a run makes
MaxChecks == 3

\* tokens_used arguments
TokenCounts == 1..2

\* the advances that led from StartTime to time t
TicksOf(t) ==
    LET elapsed == t - StartTime
    IN  (elapsed \div TokenWindow)
        + ((elapsed % TokenWindow) \div RequestWindow)
        + (elapsed % RequestWindow)

\* Redis sorted sets: one score per member
ZEntry(member, score) == [member |-> member, score |-> score]

\* ZADD key score member: a member that is in the set gets the new score
ZAdd(zset, member, score) ==
    { e \in zset : e.member # member } \cup { ZEntry(member, score) }

\* ZREMRANGEBYSCORE key min max, both ends inclusive
ZRemRangeByScore(zset, min, max) ==
    { e \in zset : ~(min <= e.score /\ e.score <= max) }

ZCard(zset) == Cardinality(zset)

RECURSIVE SumScores(_)
SumScores(zset) ==
    IF zset = {} THEN 0
    ELSE LET e == CHOOSE x \in zset : TRUE
         IN  e.score + SumScores(zset \ {e})

\* EXPIRE: a key is gone once its time to live has passed
Live(zset, ttl, t) == IF ttl # NoTtl /\ t >= ttl THEN {} ELSE zset

LimiterEntry(op, t, tokens_used, checked, result, current) ==
    [op |-> op, time |-> t, tokens_used |-> tokens_used, checked |-> checked,
     result |-> result, current |-> current]

\* time passes
Tick ==
    /\ TicksOf(now) < MaxTicks
    /\ \E d \in TimeSteps : now' = now + d
    /\ UNCHANGED << redis_enabled, redis_healthy, requests_zset, requests_ttl,
                    tokens_zset, tokens_ttl, limiter_log, retrieveVars,
                    embedVars >>

\* Redis goes down or comes back
RedisHealth ==
    /\ redis_healthy' = ~redis_healthy
    /\ UNCHANGED << now, redis_enabled, requests_zset, requests_ttl,
                    tokens_zset, tokens_ttl, limiter_log, retrieveVars,
                    embedVars >>

\* line 112: the member is str(current_time)
RequestMember(current_time) == << "str", current_time >>

\* check_request_limit, lines 67-127
CheckRequestLimit ==
    /\ Len(limiter_log) < MaxChecks
    /\ LET current_time == now
           window_start == current_time - RequestWindow
           key == ZRemRangeByScore(
                      Live(requests_zset, requests_ttl, current_time),
                      0, window_start)
           request_count == ZCard(key)
           entry(checked, result) ==
               LimiterEntry("check_request_limit", current_time, 0, checked,
                            result, request_count)
       IN  IF ~redis_enabled \/ ~redis_healthy THEN
               /\ limiter_log' = Append(limiter_log, entry(FALSE, "returned"))
               /\ UNCHANGED << requests_zset, requests_ttl >>
           ELSE IF request_count >= rate_limit_requests_per_hour THEN
               /\ limiter_log' =
                      Append(limiter_log,
                             entry(TRUE, "RateLimitExceededError"))
               /\ requests_zset' = key
               /\ requests_ttl' = IF key = {} THEN NoTtl ELSE requests_ttl
           ELSE
               /\ limiter_log' = Append(limiter_log, entry(TRUE, "returned"))
               /\ requests_zset' =
                      ZAdd(key, RequestMember(current_time), current_time)
               /\ requests_ttl' = current_time + RequestWindow
    /\ UNCHANGED << now, redis_enabled, redis_healthy, tokens_zset, tokens_ttl,
                    retrieveVars, embedVars >>

\* line 176: the member is f"{current_time}:{tokens_used}"
TokenMember(current_time, tokens_used) == << "str", current_time, tokens_used >>

\* check_token_limit, lines 129-191
CheckTokenLimit ==
    /\ Len(limiter_log) < MaxChecks
    /\ \E tokens_used \in TokenCounts :
         LET current_time == now
             day_start == current_time - TokenWindow
             key == ZRemRangeByScore(
                        Live(tokens_zset, tokens_ttl, current_time),
                        0, day_start)
             total == SumScores(key)
             entry(checked, result) ==
                 LimiterEntry("check_token_limit", current_time, tokens_used,
                              checked, result, total + tokens_used)
         IN  IF ~redis_enabled \/ ~redis_healthy THEN
                 /\ limiter_log' =
                        Append(limiter_log, entry(FALSE, "returned"))
                 /\ UNCHANGED << tokens_zset, tokens_ttl >>
             ELSE IF total + tokens_used > rate_limit_tokens_per_day THEN
                 /\ limiter_log' =
                        Append(limiter_log,
                               entry(TRUE, "TokenBudgetExceededError"))
                 /\ tokens_zset' = key
                 /\ tokens_ttl' = IF key = {} THEN NoTtl ELSE tokens_ttl
             ELSE
                 /\ limiter_log' =
                        Append(limiter_log, entry(TRUE, "returned"))
                 /\ tokens_zset' =
                        ZAdd(key, TokenMember(current_time, tokens_used),
                             tokens_used)
                 /\ tokens_ttl' = current_time + TokenWindow
    /\ UNCHANGED << now, redis_enabled, redis_healthy, requests_zset,
                    requests_ttl, retrieveVars, embedVars >>

\* a run of the limiter for one user: initialize (lines 32-58) leaves it
\* enabled when Redis answers and disabled when it does not
InitLimiter ==
    /\ RetrieveIdle
    /\ EmbedIdle
    /\ now = StartTime
    /\ redis_healthy \in BOOLEAN
    /\ redis_enabled = redis_healthy
    /\ requests_zset = {}
    /\ requests_ttl = NoTtl
    /\ tokens_zset = {}
    /\ tokens_ttl = NoTtl
    /\ limiter_log = << >>

NextLimiter == Tick \/ RedisHealth \/ CheckRequestLimit \/ CheckTokenLimit

SpecLimiter == InitLimiter /\ [][NextLimiter]_vars

\* the positions of the checks of one kind that ran against Redis
Checked(op) ==
    { k \in DOMAIN limiter_log :
        limiter_log[k].op = op /\ limiter_log[k].checked }

\* every check of the run ran with the limiter enabled and Redis healthy
AllChecked == \A k \in DOMAIN limiter_log : limiter_log[k].checked

\* the checks of one kind that returned during the window ending at time t
ReturnedInWindow(op, t, window) ==
    { k \in Checked(op) :
        /\ limiter_log[k].result = "returned"
        /\ limiter_log[k].time > t - window
        /\ limiter_log[k].time <= t }

\* C25: with the limiter enabled and Redis healthy, at most
\* rate_limit_requests_per_hour check_request_limit calls return during any
\* 3600-second window, calls in the same second included
C25_RequestsPerWindowBounded ==
    AllChecked =>
        \A k \in Checked("check_request_limit") :
            Cardinality(ReturnedInWindow("check_request_limit",
                                         limiter_log[k].time, RequestWindow))
                <= rate_limit_requests_per_hour

RECURSIVE SumTokens(_)
SumTokens(ks) ==
    IF ks = {} THEN 0
    ELSE LET k == CHOOSE x \in ks : TRUE
         IN  limiter_log[k].tokens_used + SumTokens(ks \ {k})

\* C26: with the limiter enabled and Redis healthy, the tokens_used of the
\* check_token_limit calls that return during any 86400-second window sum
\* to at most rate_limit_tokens_per_day
C26_TokensPerWindowBounded ==
    AllChecked =>
        \A k \in Checked("check_token_limit") :
            SumTokens(ReturnedInWindow("check_token_limit",
                                       limiter_log[k].time, TokenWindow))
                <= rate_limit_tokens_per_day

\* ------------------------------------------- two coroutines on one manager
\* a second embed_query(text) is called, use_cache at its default, while the
\* manager's other call may be suspended at its await
BgBegin ==
    /\ bg.pc \in {"idle", "done"}
    /\ \E text \in EmbedTexts :
          bg' = BgCall("attempt", text, 1, 0, NoEmbedResult)
    /\ UNCHANGED << cache, cache_writes, stored, prev_op, e_op, e_pc,
                    e_attempt, e_locals, e_cache_before, e_calls, e_gen,
                    e_result, retrieveVars, limiterVars >>

\* tenacity around the second call: run it again or re-raise
BgRaised ==
    IF EmbedRetryIf("EmbeddingError") /\ ~EmbedStopAfterAttempt(bg.attempt)
    THEN BgCall("attempt", bg.text, bg.attempt + 1, 0, NoEmbedResult)
    ELSE BgCall("done", bg.text, bg.attempt, bg.gen,
                EmbedResult("EmbeddingError", << >>))

\* embed_query, lines 78-91, up to the await
BgAttempt ==
    /\ bg.pc = "attempt"
    /\ IF IsBlank(bg.text) THEN
           /\ bg' = BgRaised
           /\ UNCHANGED e_gen
       ELSE IF IsCached(cache, bg.text, TRUE) THEN
           /\ bg' = BgCall("done", bg.text, bg.attempt, bg.gen,
                           EmbedResult("returned",
                                       << cache[CacheKey(bg.text)] >>))
           /\ UNCHANGED e_gen
       ELSE
           /\ e_gen < MaxCalls
           /\ e_gen' = e_gen + 1
           /\ bg' = BgCall("await", bg.text, bg.attempt, e_gen',
                           NoEmbedResult)
    /\ UNCHANGED << cache, cache_writes, stored, prev_op, e_op, e_pc,
                    e_attempt, e_locals, e_cache_before, e_calls, e_result,
                    retrieveVars, limiterVars >>

\* embed_query, lines 91-112, from the await on
BgAwait ==
    /\ bg.pc = "await"
    /\ \E status \in ServiceOutcomes \ {"short"} :
         LET embedding == ServiceVectors(<< bg.text >>, bg.gen, status)
         IN  IF status = "ok" THEN
                 /\ cache' = StoreAll(cache, << bg.text >>, embedding, TRUE)
                 /\ cache_writes' = CountWrites(cache_writes, << bg.text >>,
                                                embedding, TRUE)
                 /\ bg' = BgCall("done", bg.text, bg.attempt, bg.gen,
                                 EmbedResult("returned", embedding))
             ELSE
                 /\ bg' = BgRaised
                 /\ UNCHANGED << cache, cache_writes >>
    /\ UNCHANGED << stored, prev_op, e_op, e_pc, e_attempt, e_locals,
                    e_cache_before, e_calls, e_gen, e_result, retrieveVars,
                    limiterVars >>

NextEmbedConc ==
    \/ NextEmbed
    \/ BgBegin
    \/ BgAttempt
    \/ BgAwait

SpecEmbedConc == InitEmbed /\ [][NextEmbedConc]_vars

\* C23: under any interleaving of embed_query and embed_documents calls on
\* the shared cache, no key is written more than once between two clears
C23_WrittenOncePerKey ==
    \A key \in CacheKeys : cache_writes[key] <= 1

====
